---- MODULE Spec2Model ----
(***************************************************************************)
(* Wisp multiplexer of src/main.py (class WispConnection): one WebSocket   *)
(* connection, its stream table, the dispatcher (handle_ws), and for every *)
(* CONNECT frame a connect task (new_stream) and the two pumps it spawns   *)
(* (stream_ws_to_tcp, stream_tcp_to_ws).                                   *)
(*                                                                         *)
(* Scheduling is asyncio's: one task runs at a time and tasks interleave   *)
(* only at an await.  Each action below is the code a task runs from one   *)
(* await to the next.  A program counter names the await a task is         *)
(* suspended at.  task.cancel() is delivered at that await: a task whose   *)
(* code lets CancelledError propagate ends there ("done"); new_stream's    *)
(* bare except around open_connection catches it ("cancelled": the handler *)
(* still has to run).                                                      *)
(*                                                                         *)
(* Every CONNECT frame the dispatcher handles creates one stream record;   *)
(* records are numbered 1, 2, ... in creation order.  Connect task k, the  *)
(* TCP socket it opens and the two pumps it spawns carry the number k of   *)
(* the record created with them; which record they act on is decided, as   *)
(* in the code, by looking the stream id up in active_streams.             *)
(***************************************************************************)
EXTENDS Naturals, Sequences, FiniteSets

\* bounds of the model
MaxId == 1
MaxConnect == 2
MaxData == 1
MaxRead == 1
FlowData == 129

\* src/main.py:11
queue_size == 128

StreamIds == 0..MaxId
Recs == 1..MaxConnect
Kinds == {"tcp", "udp", "bad"}

VARIABLES
  lim,           \* the client: its budget in this run (frames, stream ids)
                 \* and, when it obeys flow control, the credit it holds for
                 \* each stream id
  wsOpen,        \* the WebSocket is open (recv and send do not raise)
  dpc,           \* handle_ws / connection_handler: init, recv, put, done, crashed
  dref,          \* record whose queue handle_ws is blocked on in put()
  dpay,          \* payload of that put()
  active_streams,\* stream id -> record number, 0 when the id is not a key
  nrec,          \* records created so far
  sid,           \* record -> stream id of its CONNECT
  kind,          \* record -> payload of its CONNECT: tcp, udp (type # 1), bad
  io,            \* record -> 0 (reader/writer/pump handles are None) or the
                 \* connect task that installed its socket and pumps there
  queue,         \* record -> stream["queue"]
  packets_sent,  \* record -> stream["packets_sent"]
  conn,          \* connect task -> none, new, open_connection, cancelled,
                 \*                 send41, send42, done
  w2t,           \* stream_ws_to_tcp task -> pc: none, new, get, drain,
                 \* sendcont, done; stream: the record its local variable
                 \* stream is bound to while it is suspended in the loop
  t2w,           \* stream_tcp_to_ws task -> pc: none, new, read, senddata,
                 \* sendclose, done; reader: the socket it is reading
  sock,          \* socket -> none, open, closed
  nread,         \* chunks read from upstream so far
  ndata,         \* DATA frames received so far
  sent,          \* history: id -> frames bearing the id handed to ws.send,
                 \* in order
  got,           \* history: id -> DATA payloads received for the id while it
                 \* is a key of active_streams, since it last became one
  wrote,         \* history: id -> payloads written to TCP by the pumps of the
                 \* id, over the same period
  sockRead,      \* history: socket -> chunks read from it
  dataSent,      \* history: id -> payloads of the DATA frames sent for the id,
                 \* over the same period as got
  dupSeen        \* history: some CONNECT bore an id that was a key already

ctl == <<lim, wsOpen, dpc, dref, dpay, nread, ndata>>
strm == <<active_streams, nrec, sid, kind, io, queue, packets_sent>>
tasks == <<conn, w2t, t2w, sock>>
hist == <<sent, got, wrote, sockRead, dataSent, dupSeen>>
vars == <<ctl, strm, tasks, hist>>

----------------------------------------------------------------------------
\* frames the server sends: type, stream id and the payload's value are the
\* frame; by (the function that sent it) and rec (the record the id was a key
\* for when the frame was handed to ws.send, 0 when it was none) are history
Frame(t, id, v, by) ==
  [t |-> t, id |-> id, v |-> v, by |-> by, rec |-> active_streams[id]]

\* setup: struct.pack("<BI", 0x03, 0) + struct.pack("<B", queue_size)
InitialContinue ==
  [t |-> "CONTINUE", id |-> 0, v |-> queue_size, by |-> "setup", rec |-> 0]

\* packets_sent % queue_size / 4 == 0: % and / associate to the left and / is
\* true division, so the quotient is zero exactly when the remainder is
ContinueDue(n) == (n % queue_size) = 0

\* a pump at an await, and a pump that is not running
At(pc, ref) == [pc |-> pc, ref |-> ref]
NoTask == At("none", 0)
Done == At("done", 0)

\* task.cancel() reaching a connect task at its await
CancelConn(pc) ==
  CASE pc = "new" -> "done"
    [] pc = "open_connection" -> "cancelled"
    [] pc \in {"send41", "send42"} -> "done"
    [] OTHER -> pc

\* task.cancel() reaching a pump at its await: CancelledError leaves
\* stream_tcp_to_ws, and in stream_ws_to_tcp it either leaves the task or is
\* caught by the bare except around drain(), which breaks out of the loop
CancelPump(p) == IF p.pc = "none" THEN p ELSE Done

\* close_stream for every id of S: what the state is afterwards
ClosedRecs(S) == {active_streams[i] : i \in {x \in S : active_streams[x] # 0}}
ClosedIo(S) == {io[r] : r \in ClosedRecs(S)} \ {0}
close_stream(S) ==
  [active_streams |-> [i \in StreamIds |-> IF i \in S THEN 0 ELSE active_streams[i]],
   sock |-> [s \in Recs |-> IF s \in ClosedIo(S) THEN "closed" ELSE sock[s]],
   conn |-> [r \in Recs |-> IF r \in ClosedRecs(S) THEN CancelConn(conn[r]) ELSE conn[r]],
   w2t |-> [j \in Recs |-> IF j \in ClosedIo(S) THEN CancelPump(w2t[j]) ELSE w2t[j]],
   t2w |-> [j \in Recs |-> IF j \in ClosedIo(S) THEN CancelPump(t2w[j]) ELSE t2w[j]],
   got |-> [i \in StreamIds |-> IF i \in S /\ active_streams[i] # 0 THEN <<>> ELSE got[i]],
   wrote |-> [i \in StreamIds |-> IF i \in S /\ active_streams[i] # 0 THEN <<>> ELSE wrote[i]],
   dataSent |-> [i \in StreamIds |-> IF i \in S /\ active_streams[i] # 0 THEN <<>> ELSE dataSent[i]]]

\* an await on ws.send that resumes: normally, or, once the WebSocket is
\* closed, possibly by raising ConnectionClosed
SendOutcomes == IF wsOpen THEN {"ok"} ELSE {"ok", "raise"}

----------------------------------------------------------------------------
NoCredit == [i \in StreamIds |-> 0]
MainLim == [conn |-> MaxConnect, data |-> MaxData, read |-> MaxRead,
            ids |-> StreamIds, obey |-> FALSE, credit |-> NoCredit]
FlowLim == [conn |-> 1, data |-> FlowData, read |-> 1, ids |-> {1},
            obey |-> FALSE, credit |-> NoCredit]
CreditLim == [conn |-> 1, data |-> FlowData, read |-> 1, ids |-> {1},
              obey |-> TRUE, credit |-> NoCredit]

\* the client that obeys flow control holds c credits for the id
Credit(l, id, c) == IF l.obey THEN [l EXCEPT !.credit[id] = c] ELSE l

InitWith(l) ==
  /\ lim = l
  /\ wsOpen = TRUE
  /\ dpc = "init"
  /\ dref = 0
  /\ dpay = 0
  /\ active_streams = [i \in StreamIds |-> 0]
  /\ nrec = 0
  /\ sid = [r \in Recs |-> 0]
  /\ kind = [r \in Recs |-> "tcp"]
  /\ io = [r \in Recs |-> 0]
  /\ queue = [r \in Recs |-> <<>>]
  /\ packets_sent = [r \in Recs |-> 0]
  /\ conn = [r \in Recs |-> "none"]
  /\ w2t = [r \in Recs |-> NoTask]
  /\ t2w = [r \in Recs |-> NoTask]
  /\ sock = [r \in Recs |-> "none"]
  /\ nread = 0
  /\ ndata = 0
  /\ sent = [i \in StreamIds |-> <<>>]
  /\ got = [i \in StreamIds |-> <<>>]
  /\ wrote = [i \in StreamIds |-> <<>>]
  /\ sockRead = [r \in Recs |-> <<>>]
  /\ dataSent = [i \in StreamIds |-> <<>>]
  /\ dupSeen = FALSE

Init == InitWith(MainLim)
InitFlow == InitWith(FlowLim)
InitCredit == InitWith(CreditLim)

----------------------------------------------------------------------------
\* connection_handler and handle_ws

\* C3, mutant: setup hands nothing to ws.send
SetupSendsNothing ==
  /\ dpc = "init"
  /\ dpc' = (IF wsOpen THEN "recv" ELSE "crashed")
  /\ UNCHANGED <<lim, wsOpen, dref, dpay, nread, ndata, strm, tasks, hist>>

\* connection_handler: await connection.setup(), then handle_ws starts
Setup ==
  /\ dpc = "init"
  /\ IF wsOpen
       THEN /\ sent' = [sent EXCEPT ![0] = Append(@, InitialContinue)]
            /\ dpc' = "recv"
       ELSE /\ dpc' = "crashed"
            /\ UNCHANGED sent
  /\ UNCHANGED <<lim, wsOpen, dref, dpay, nread, ndata, strm, tasks,
                 got, wrote, sockRead, dataSent, dupSeen>>

\* the client, or the network, closes the WebSocket
WsClose ==
  /\ wsOpen
  /\ wsOpen' = FALSE
  /\ UNCHANGED <<lim, dpc, dref, dpay, nread, ndata, strm, tasks, hist>>

\* handle_ws, packet_type == 0x01
RecvConnect(id, kd) ==
  /\ dpc = "recv"
  /\ wsOpen
  /\ nrec < lim.conn
  /\ nrec' = nrec + 1
  /\ active_streams' = [active_streams EXCEPT ![id] = nrec + 1]
  /\ sid' = [sid EXCEPT ![nrec + 1] = id]
  /\ kind' = [kind EXCEPT ![nrec + 1] = kd]
  /\ conn' = [conn EXCEPT ![nrec + 1] = "new"]
  /\ dupSeen' = (dupSeen \/ active_streams[id] # 0)
  \* a new stream starts with the credit of the initial CONTINUE
  /\ lim' = Credit(lim, id, queue_size)
  /\ UNCHANGED <<wsOpen, dpc, dref, dpay, nread, ndata, io, queue,
                 packets_sent, w2t, t2w, sock, sent, got, wrote, sockRead,
                 dataSent>>

\* handle_ws, packet_type == 0x02.  The code never looks inside a payload:
\* the n-th DATA frame that finds its stream carries the payload n, so that
\* every payload is told from every other
RecvData(id) ==
  /\ dpc = "recv"
  /\ wsOpen
  /\ ndata < lim.data
  /\ lim.obey => lim.credit[id] > 0
  /\ LET r == active_streams[id]
         p == ndata + 1
     IN
       IF r = 0
         \* stream is None: the frame is dropped
         THEN UNCHANGED <<lim, dpc, dref, dpay, queue, got, ndata>>
         ELSE /\ ndata' = ndata + 1
              /\ lim' = Credit(lim, id, lim.credit[id] - 1)
              /\ got' = [got EXCEPT ![id] = Append(@, p)]
              /\ IF Len(queue[r]) < queue_size
                   THEN /\ queue' = [queue EXCEPT ![r] = Append(@, p)]
                        /\ UNCHANGED <<dpc, dref, dpay>>
                   ELSE /\ dpc' = "put"
                        /\ dref' = r
                        /\ dpay' = p
                        /\ UNCHANGED queue
  /\ UNCHANGED <<wsOpen, nread, active_streams, nrec, sid, kind, io,
                 packets_sent, tasks, sent, wrote, sockRead, dataSent, dupSeen>>

\* handle_ws resumes from a put() that found the queue full
PutResume ==
  /\ dpc = "put"
  /\ Len(queue[dref]) < queue_size
  /\ queue' = [queue EXCEPT ![dref] = Append(@, dpay)]
  /\ dpc' = "recv"
  /\ dref' = 0
  /\ dpay' = 0
  /\ UNCHANGED <<lim, wsOpen, nread, ndata, active_streams, nrec,
                 sid, kind, io, packets_sent, tasks, hist>>

\* the part of the state close_stream changes
Closing(c) ==
  /\ active_streams' = c.active_streams
  /\ sock' = c.sock
  /\ conn' = c.conn
  /\ w2t' = c.w2t
  /\ t2w' = c.t2w
  /\ got' = c.got
  /\ wrote' = c.wrote
  /\ dataSent' = c.dataSent
  /\ UNCHANGED <<nrec, sid, kind, io, queue, packets_sent, sent, sockRead,
                 dupSeen>>

\* handle_ws, packet_type == 0x04 with a one-byte payload
RecvClose(id) ==
  /\ dpc = "recv"
  /\ wsOpen
  /\ Closing(close_stream({id}))
  /\ UNCHANGED ctl

\* handle_ws: struct.unpack raises on a message shorter than 5 bytes (line
\* 165) or on a CLOSE whose payload is not one byte (line 186); nothing in
\* handle_ws catches it, the handler ends and the server closes the WebSocket
RecvMalformed ==
  /\ dpc = "recv"
  /\ wsOpen
  /\ dpc' = "crashed"
  /\ wsOpen' = FALSE
  /\ UNCHANGED <<lim, dref, dpay, nread, ndata, strm, tasks, hist>>

\* handle_ws: recv raises ConnectionClosed, every stream is closed
RecvClosed ==
  /\ dpc = "recv"
  /\ ~wsOpen
  /\ dpc' = "done"
  /\ Closing(close_stream(StreamIds))
  /\ UNCHANGED <<lim, wsOpen, dref, dpay, nread, ndata>>

----------------------------------------------------------------------------
\* new_stream (the connect task of record k), lines 65-87

\* the frame send_close_packet sends
CloseFrame(id, reason, by) == Frame("CLOSE", id, reason, by)

\* C10, mutant: new_stream without the test of stream_type
ConnStartAnyType(k) ==
  /\ conn[k] = "new"
  /\ conn' = [conn EXCEPT ![k] = IF kind[k] = "bad" THEN "done" ELSE "open_connection"]
  /\ UNCHANGED <<ctl, strm, w2t, t2w, sock, hist>>

\* the task starts: lines 66-75 up to the first await
ConnStart(k) ==
  /\ conn[k] = "new"
  /\ IF kind[k] = "bad"
       \* struct.unpack or decode raises: the task ends, the record stays
       THEN /\ conn' = [conn EXCEPT ![k] = "done"]
            /\ UNCHANGED sent
       ELSE IF kind[k] = "tcp"
       THEN /\ conn' = [conn EXCEPT ![k] = "open_connection"]
            /\ UNCHANGED sent
       ELSE IF active_streams[sid[k]] = 0 \/ ~wsOpen
       \* id not a key: send_close_packet and close_stream both return;
       \* WebSocket closed: ws.send raises out of the task
       THEN /\ conn' = [conn EXCEPT ![k] = "done"]
            /\ UNCHANGED sent
       ELSE /\ sent' = [sent EXCEPT ![sid[k]] = Append(@, CloseFrame(sid[k], 65, "new_stream"))]
            /\ conn' = [conn EXCEPT ![k] = "send41"]
  /\ UNCHANGED <<ctl, strm, w2t, t2w, sock, got, wrote, sockRead, dataSent, dupSeen>>

\* C11, mutant: an except block that only returns
ConnExceptReturns(k) ==
  /\ conn' = [conn EXCEPT ![k] = "done"]
  /\ UNCHANGED <<ctl, strm, w2t, t2w, sock, hist>>

\* the except block of lines 76-79, up to the await in send_close_packet
ConnExcept(k) ==
  /\ IF active_streams[sid[k]] = 0 \/ ~wsOpen
       THEN /\ conn' = [conn EXCEPT ![k] = "done"]
            /\ UNCHANGED sent
       ELSE /\ sent' = [sent EXCEPT ![sid[k]] = Append(@, CloseFrame(sid[k], 66, "new_stream"))]
            /\ conn' = [conn EXCEPT ![k] = "send42"]
  /\ UNCHANGED <<ctl, strm, w2t, t2w, sock, got, wrote, sockRead, dataSent, dupSeen>>

\* open_connection raises (DNS, refused, unreachable)
ConnectFail(k) ==
  /\ conn[k] = "open_connection"
  /\ ConnExcept(k)

\* the task was cancelled while in open_connection: asyncio abandons the
\* connect, and the bare except catches the CancelledError
ConnCancelled(k) ==
  /\ conn[k] = "cancelled"
  /\ ConnExcept(k)

\* open_connection returns: lines 81-87
ConnectOk(k) ==
  /\ conn[k] = "open_connection"
  /\ sock' = [sock EXCEPT ![k] = "open"]
  /\ conn' = [conn EXCEPT ![k] = "done"]
  /\ LET r == active_streams[sid[k]] IN
       IF r = 0
         \* KeyError at line 81: the socket is never closed
         THEN UNCHANGED <<io, w2t, t2w>>
         ELSE /\ io' = [io EXCEPT ![r] = k]
              /\ w2t' = [w2t EXCEPT ![k] = At("new", 0)]
              /\ t2w' = [t2w EXCEPT ![k] = At("new", 0)]
  /\ UNCHANGED <<ctl, active_streams, nrec, sid, kind, queue, packets_sent,
                 hist>>

\* the await on ws.send in send_close_packet resumes, then close_stream
\* (lines 71-72 and 78-79)
ConnSendDone(k) ==
  /\ conn[k] \in {"send41", "send42"}
  /\ \E o \in SendOutcomes :
       IF o = "raise"
         THEN /\ conn' = [conn EXCEPT ![k] = "done"]
              /\ UNCHANGED <<strm, w2t, t2w, sock, hist>>
         ELSE LET c == close_stream({sid[k]}) IN
              Closing([c EXCEPT !.conn = [c.conn EXCEPT ![k] = "done"]])
  /\ UNCHANGED ctl

----------------------------------------------------------------------------
\* stream_ws_to_tcp (pump j, spawned by connect task j), lines 95-112

\* lines 98-100, from the top of the loop to the next await: look the record
\* up, take the next payload if there is one and write it
W2TTop(j) ==
  LET r == active_streams[sid[j]] IN
    IF r = 0
      \* KeyError at line 98
      THEN /\ w2t' = [w2t EXCEPT ![j] = Done]
           /\ UNCHANGED <<queue, wrote>>
    ELSE IF queue[r] = <<>>
      THEN /\ w2t' = [w2t EXCEPT ![j] = At("get", r)]
           /\ UNCHANGED <<queue, wrote>>
    ELSE IF io[r] = 0
      \* stream["writer"] is None: AttributeError, the payload is gone
      THEN /\ queue' = [queue EXCEPT ![r] = Tail(@)]
           /\ w2t' = [w2t EXCEPT ![j] = Done]
           /\ UNCHANGED wrote
      ELSE /\ queue' = [queue EXCEPT ![r] = Tail(@)]
           /\ wrote' = [wrote EXCEPT ![sid[j]] = Append(@, Head(queue[r]))]
           /\ w2t' = [w2t EXCEPT ![j] = At("drain", r)]

\* the task starts
W2TStart(j) ==
  /\ w2t[j].pc = "new"
  /\ W2TTop(j)
  /\ UNCHANGED <<ctl, active_streams, nrec, sid, kind, io, packets_sent, conn,
                 t2w, sock, sent, got, sockRead, dataSent, dupSeen>>

\* queue.get() returns to a pump that waited for a payload; line 100
W2TGet(j) ==
  /\ w2t[j].pc = "get"
  /\ queue[w2t[j].ref] # <<>>
  /\ queue' = [queue EXCEPT ![w2t[j].ref] = Tail(@)]
  /\ wrote' = [wrote EXCEPT ![sid[j]] = Append(@, Head(queue[w2t[j].ref]))]
  /\ w2t' = [w2t EXCEPT ![j] = At("drain", @.ref)]
  /\ UNCHANGED <<ctl, active_streams, nrec, sid, kind, io, packets_sent, conn,
                 t2w, sock, sent, got, sockRead, dataSent, dupSeen>>

\* drain() returns: lines 107-112, and on to the top of the loop when no
\* CONTINUE is due
W2TDrainOk(j) ==
  /\ w2t[j].pc = "drain"
  /\ LET r == w2t[j].ref IN
       /\ packets_sent' = [packets_sent EXCEPT ![r] = @ + 1]
       /\ IF ~ContinueDue(packets_sent[r] + 1)
            THEN /\ W2TTop(j)
                 /\ UNCHANGED <<sent, lim>>
            ELSE IF ~wsOpen
            \* ws.send raises ConnectionClosed out of the task
            THEN /\ w2t' = [w2t EXCEPT ![j] = Done]
                 /\ UNCHANGED <<queue, wrote, sent, lim>>
            ELSE /\ sent' = [sent EXCEPT ![sid[j]] =
                              Append(@, Frame("CONTINUE", sid[j],
                                              queue_size - Len(queue[r]),
                                              "stream_ws_to_tcp"))]
                 \* the CONTINUE resets the client's credit to its
                 \* buffer_remaining
                 /\ lim' = Credit(lim, sid[j], queue_size - Len(queue[r]))
                 /\ w2t' = [w2t EXCEPT ![j] = At("sendcont", r)]
                 /\ UNCHANGED <<queue, wrote>>
  /\ UNCHANGED <<wsOpen, dpc, dref, dpay, nread, ndata, active_streams, nrec,
                 sid, kind, io, conn, t2w, sock, got, sockRead, dataSent,
                 dupSeen>>

\* drain() raises: the bare except of lines 103-104 leaves the loop
W2TDrainFail(j) ==
  /\ w2t[j].pc = "drain"
  /\ w2t' = [w2t EXCEPT ![j] = Done]
  /\ UNCHANGED <<ctl, strm, conn, t2w, sock, hist>>

\* the await on ws.send of line 112 resumes
W2TSendDone(j) ==
  /\ w2t[j].pc = "sendcont"
  /\ \E o \in SendOutcomes :
       IF o = "raise"
         THEN /\ w2t' = [w2t EXCEPT ![j] = Done]
              /\ UNCHANGED <<queue, wrote>>
         ELSE W2TTop(j)
  /\ UNCHANGED <<ctl, active_streams, nrec, sid, kind, io, packets_sent, conn,
                 t2w, sock, sent, got, sockRead, dataSent, dupSeen>>

----------------------------------------------------------------------------
\* stream_tcp_to_ws (pump j, spawned by connect task j), lines 114-124

\* lines 116-117, from the top of the loop to the await on read
T2WTop(j) ==
  LET r == active_streams[sid[j]] IN
    IF \/ r = 0
       \/ io[r] = 0
       \/ \E x \in Recs \ {j} : t2w[x] = At("read", io[r])
      \* KeyError; stream["reader"] is None; or StreamReader.read raises
      \* RuntimeError because another coroutine is waiting on this reader
      THEN t2w' = [t2w EXCEPT ![j] = Done]
      ELSE t2w' = [t2w EXCEPT ![j] = At("read", io[r])]

\* the task starts
T2WStart(j) ==
  /\ t2w[j].pc = "new"
  /\ T2WTop(j)
  /\ UNCHANGED <<ctl, strm, conn, w2t, sock, hist>>

\* read returns a non-empty chunk: lines 120-121.  The n-th chunk read in
\* the run is the chunk n
T2WReadChunk(j) ==
  /\ t2w[j].pc = "read"
  /\ sock[t2w[j].ref] = "open"
  /\ nread < lim.read
  /\ nread' = nread + 1
  /\ LET c == nread + 1 IN
       /\ sockRead' = [sockRead EXCEPT ![t2w[j].ref] = Append(@, c)]
       /\ IF wsOpen
            THEN /\ sent' = [sent EXCEPT ![sid[j]] =
                              Append(@, Frame("DATA", sid[j], c,
                                              "stream_tcp_to_ws"))]
                 /\ dataSent' = [dataSent EXCEPT ![sid[j]] = Append(@, c)]
                 /\ t2w' = [t2w EXCEPT ![j] = At("senddata", @.ref)]
            \* ws.send raises ConnectionClosed out of the task
            ELSE /\ t2w' = [t2w EXCEPT ![j] = Done]
                 /\ UNCHANGED <<sent, dataSent>>
  /\ UNCHANGED <<lim, wsOpen, dpc, dref, dpay, ndata, strm, conn, w2t, sock,
                 got, wrote, dupSeen>>

\* read returns b"" (the upstream closed, or the socket was closed here):
\* line 123 up to the await in send_close_packet
T2WReadEof(j) ==
  /\ t2w[j].pc = "read"
  /\ IF active_streams[sid[j]] = 0 \/ ~wsOpen
       THEN /\ t2w' = [t2w EXCEPT ![j] = Done]
            /\ UNCHANGED sent
       ELSE /\ sent' = [sent EXCEPT ![sid[j]] = Append(@, CloseFrame(sid[j], 2, "stream_tcp_to_ws"))]
            /\ t2w' = [t2w EXCEPT ![j] = At("sendclose", @.ref)]
  /\ UNCHANGED <<ctl, strm, conn, w2t, sock, got, wrote, sockRead, dataSent, dupSeen>>

\* read raises (connection reset): nothing catches it, the task ends
T2WReadErr(j) ==
  /\ t2w[j].pc = "read"
  /\ t2w' = [t2w EXCEPT ![j] = Done]
  /\ UNCHANGED <<ctl, strm, conn, w2t, sock, hist>>

\* the await on ws.send of line 121 resumes
T2WSendDataDone(j) ==
  /\ t2w[j].pc = "senddata"
  /\ \E o \in SendOutcomes :
       IF o = "raise"
         THEN t2w' = [t2w EXCEPT ![j] = Done]
         ELSE T2WTop(j)
  /\ UNCHANGED <<ctl, strm, conn, w2t, sock, hist>>

\* the await on ws.send in send_close_packet resumes, then close_stream
\* (line 124)
T2WSendCloseDone(j) ==
  /\ t2w[j].pc = "sendclose"
  /\ \E o \in SendOutcomes :
       IF o = "raise"
         THEN /\ t2w' = [t2w EXCEPT ![j] = Done]
              /\ UNCHANGED <<strm, conn, w2t, sock, hist>>
         ELSE LET c == close_stream({sid[j]}) IN
              Closing([c EXCEPT !.t2w = [c.t2w EXCEPT ![j] = Done]])
  /\ UNCHANGED ctl

----------------------------------------------------------------------------
Client ==
  \/ \E id \in lim.ids, kd \in Kinds : RecvConnect(id, kd)
  \/ \E id \in lim.ids : RecvData(id)
  \/ \E id \in lim.ids : RecvClose(id)
  \/ RecvMalformed
  \/ RecvClosed
  \/ WsClose

ConnectTask(k) ==
  \/ ConnStart(k)
  \/ ConnectFail(k)
  \/ ConnCancelled(k)
  \/ ConnectOk(k)
  \/ ConnSendDone(k)

WsToTcp(j) ==
  \/ W2TStart(j)
  \/ W2TGet(j)
  \/ W2TDrainOk(j)
  \/ W2TDrainFail(j)

TcpToWs(j) ==
  \/ T2WStart(j)
  \/ T2WReadChunk(j)
  \/ T2WReadEof(j)
  \/ T2WReadErr(j)
  \/ T2WSendDataDone(j)
  \/ T2WSendCloseDone(j)

Next ==
  \/ Setup
  \/ Client
  \/ \E k \in Recs : ConnectTask(k) \/ WsToTcp(k) \/ TcpToWs(k)

Spec == Init /\ [][Next]_vars

\* runs long enough to fill a queue and to reach the period of CONTINUE (one
\* stream id, one CONNECT): the two awaits below are reached only then
NextFlow ==
  \/ Next
  \/ PutResume
  \/ \E j \in Recs : W2TSendDone(j)

FlowSpec == InitFlow /\ [][NextFlow]_vars

----------------------------------------------------------------------------
\* what the properties below speak of

\* the DATA payload handle_ws holds while it is blocked in put() for the id
Pending(i) ==
  IF dpc = "put" /\ dref = active_streams[i] THEN <<dpay>> ELSE <<>>

\* positions, in the frames sent for the id of record r, of the frames of
\* type t sent while r was the record of that id
FramesOf(r, t) ==
  {n \in DOMAIN sent[sid[r]] : sent[sid[r]][n].t = t /\ sent[sid[r]][n].rec = r}

\* the stream table has no key
TableEmpty == \A i \in StreamIds : active_streams[i] = 0

\* a task that is waiting for its stream's I/O, or has yet to start
ConnWaiting(k) == conn[k] \in {"new", "open_connection"}
PumpWaiting(j) ==
  \/ w2t[j].pc \in {"new", "get", "drain"}
  \/ t2w[j].pc \in {"new", "read"}

----------------------------------------------------------------------------
\* the ids a client uses for data streams
DataIds == StreamIds \ {0}

\* C1: for every data stream id in the table, the payloads received for it
\* are, in order, the payloads written to TCP followed by those still queued
\* (and the one handle_ws may be blocked on): none lost, duplicated or
\* reordered.
C1_WrittenIsReceived ==
  \A i \in DataIds :
    active_streams[i] # 0 =>
      got[i] = wrote[i] \o queue[active_streams[i]] \o Pending(i)

\* C2: for every data stream id whose record has a socket, while the
\* WebSocket is open, the payloads of the DATA frames sent for the id are
\* exactly the chunks read from that socket, in read order.
C2_DataIsUpstream ==
  \A i \in DataIds :
    (wsOpen /\ active_streams[i] # 0 /\ io[active_streams[i]] # 0) =>
      dataSent[i] = sockRead[io[active_streams[i]]]

\* C3: before setup has sent, nothing was sent, no inbound message was read
\* and no task exists; once any frame was sent, the first frame sent is
\* CONTINUE(0, queue_size) from setup, and setup sent no other frame.
FromSetup(i) == {n \in DOMAIN sent[i] : sent[i][n].by = "setup"}
C3_InitialContinueFirst ==
  /\ dpc = "init" =>
       /\ \A i \in StreamIds : sent[i] = <<>>
       /\ nrec = 0 /\ ndata = 0 /\ TableEmpty
       /\ \A k \in Recs : conn[k] = "none" /\ w2t[k] = NoTask /\ t2w[k] = NoTask
  /\ (dpc # "init" /\ \E i \in StreamIds : sent[i] # <<>>) =>
       /\ sent[0] # <<>>
       /\ sent[0][1].t = "CONTINUE" /\ sent[0][1].id = 0
       /\ sent[0][1].v = 128 /\ sent[0][1].v = queue_size
       /\ FromSetup(0) = {1}
       /\ \A i \in DataIds : FromSetup(i) = {}
  /\ dpc \in {"recv", "put", "done"} => sent[0] # <<>>

\* C3, witness: the dispatcher has read inbound frames and other frames were
\* sent, on stream id 0 too, after the initial CONTINUE
C3_Witness ==
  /\ dpc = "recv"
  /\ nrec = MaxConnect
  /\ Len(sent[0]) > 1
  /\ \E i \in DataIds : sent[i] # <<>>

\* C4: once the WebSocket is closed and handle_ws has ended, no socket is
\* open, no connect task or pump is waiting for I/O and the table is empty.
C4_NothingLeftAfterWsClose ==
  (~wsOpen /\ dpc \in {"done", "crashed"}) =>
    /\ TableEmpty
    /\ \A k \in Recs : sock[k] # "open" /\ ~ConnWaiting(k) /\ ~PumpWaiting(k)

\* C5: while one record holds a data stream id, and no CONNECT ever bore an
\* id that was in the table, at most one CLOSE frame is sent for the id.
C5_AtMostOneClose ==
  \A r \in Recs :
    (~dupSeen /\ sid[r] \in DataIds) => Cardinality(FramesOf(r, "CLOSE")) <= 1

\* C6: a step that removes a data stream's record from the table while the
\* WebSocket is open finds exactly one CLOSE frame sent for that record.
C6_RemovedHasOneClose ==
  [][\A r \in Recs :
       (wsOpen /\ sid[r] \in DataIds /\ active_streams[sid[r]] = r
          /\ active_streams'[sid[r]] # r) =>
         Cardinality(FramesOf(r, "CLOSE")) = 1]_vars

\* C7: no frame is sent for a data stream id after a CLOSE frame sent for it
\* while the same record holds the id.
C7_CloseIsLast ==
  \A i \in DataIds : \A n \in DOMAIN sent[i] : \A m \in DOMAIN sent[i] :
    (sent[i][n].t = "CLOSE" /\ n < m) => sent[i][m].rec # sent[i][n].rec

\* C8: while the WebSocket is open, the CONTINUE frames sent for a data
\* stream are one for every queue_size / 4 = 32 payloads drained, each with
\* buffer_remaining at most queue_size.
C8_ContinueEvery32 ==
  \A r \in Recs :
    (wsOpen /\ sid[r] \in DataIds) =>
      /\ Cardinality(FramesOf(r, "CONTINUE")) = packets_sent[r] \div (queue_size \div 4)
      /\ \A n \in FramesOf(r, "CONTINUE") : sent[sid[r]][n].v <= queue_size

\* C9: while the WebSocket is open, a pump whose read returned b"" for a
\* stream in the table sends CLOSE(id, 0x02) as the next frame of the id, and
\* when that send is over the id is not in the table, the socket the pump
\* read is closed and the other pump spawned with it has ended.
C9_EofClosesStream ==
  [][\A j \in Recs :
       /\ (wsOpen /\ t2w[j].pc = "read" /\ t2w'[j].pc = "sendclose") =>
            /\ Len(sent'[sid[j]]) = Len(sent[sid[j]]) + 1
            /\ sent'[sid[j]][Len(sent'[sid[j]])].t = "CLOSE"
            /\ sent'[sid[j]][Len(sent'[sid[j]])].v = 2
       /\ (wsOpen /\ t2w[j].pc = "sendclose" /\ t2w'[j].pc # "sendclose") =>
            /\ active_streams'[sid[j]] = 0
            /\ sock'[t2w[j].ref] = "closed"
            /\ w2t'[j].pc = "done"]_vars

C12_IoErrorSendsClose ==
  [][\A j \in Recs :
       (/\ wsOpen /\ sid[j] \in DataIds
        /\ active_streams[sid[j]] # 0 /\ active_streams' = active_streams
        /\ \/ (w2t[j].pc = "drain" /\ w2t'[j].pc = "done"
                 /\ packets_sent' = packets_sent)
           \/ (t2w[j].pc = "read" /\ t2w'[j].pc = "done")) =>
         /\ Len(sent'[sid[j]]) = Len(sent[sid[j]]) + 1
         /\ sent'[sid[j]][Len(sent'[sid[j]])].t = "CLOSE"
         /\ sent'[sid[j]][Len(sent'[sid[j]])].v = 3]_vars

\* C13: a malformed message changes nothing and handle_ws keeps running: the
\* dispatcher, once in its loop, leaves it only when recv reports the closed
\* WebSocket, and a CONNECT whose payload cannot be decoded leaves the table
\* as it was.
C13_MalformedDropped ==
  [][/\ dpc = "recv" => dpc' \in {"recv", "put", "done"}
     /\ (nrec' = nrec + 1 /\ kind'[nrec'] = "bad") =>
          active_streams' = active_streams]_vars

\* C14: while a data stream id is in the table, no CONNECT frame creates a
\* record or a connect task for it, and its entry is removed or stays the
\* record it was.
C14_DuplicateConnectIgnored ==
  [][\A i \in DataIds :
       active_streams[i] # 0 =>
         /\ ~(nrec' = nrec + 1 /\ sid'[nrec'] = i)
         /\ active_streams'[i] \in {0, active_streams[i]}]_vars

\* a step of handle_ws's CLOSE branch that removes the id i from the table:
\* the dispatcher is in its loop, and no task that was sending a CLOSE frame
\* for the id ends in the step
ClientCloseStep(i) ==
  /\ dpc = "recv" /\ wsOpen
  /\ active_streams[i] # 0 /\ active_streams'[i] = 0
  /\ \A k \in Recs :
       sid[k] = i =>
         /\ ~(conn[k] \in {"send41", "send42"} /\ conn'[k] = "done")
         /\ ~(t2w[k].pc = "sendclose" /\ t2w'[k].pc = "done")

\* C15: when the client's CLOSE has removed a data stream id, no connect task
\* of the id is still to run or connecting, no pump of the id is waiting or
\* sending, and no socket opened for the id is open.
C15_ClientCloseStopsStream ==
  [][\A i \in DataIds :
       ClientCloseStep(i) =>
         \A k \in Recs :
           (k <= nrec /\ sid[k] = i) =>
             /\ conn'[k] \notin {"new", "open_connection"}
             /\ w2t'[k].pc \in {"none", "done"}
             /\ t2w'[k].pc \in {"none", "done"}
             /\ sock'[k] # "open"]_vars

\* the step in which handle_ws, told by recv that the WebSocket is closed,
\* closes every stream
TeardownStep == dpc = "recv" /\ dpc' = "done"

\* C16: a connect task of a data stream id that is still to run or connecting
\* when the client's CLOSE removes the id, or when handle_ws tears the
\* connection down, is cancelled in that step; and a connect task cancelled
\* in open_connection never gets a socket or pumps.
C16_ConnectAborted ==
  [][\A k \in Recs :
       /\ (/\ k <= nrec /\ sid[k] \in DataIds
           /\ conn[k] \in {"new", "open_connection"}
           /\ (ClientCloseStep(sid[k]) \/ TeardownStep)) =>
            conn'[k] \in {"done", "cancelled"}
       /\ conn[k] = "cancelled" =>
            /\ conn'[k] \in {"cancelled", "send42", "done"}
            /\ sock'[k] = "none" /\ w2t'[k] = NoTask /\ t2w'[k] = NoTask]_vars

\* C17: stream id 0 is never a key of the table, and no DATA payload is ever
\* received for it.
C17_IdZeroReserved == active_streams[0] = 0 /\ got[0] = <<>>

\* C18: a data stream id in the table is the id of a record a CONNECT
\* created; and, the WebSocket open and no CONNECT having borne an id that was
\* in the table, a stream one of whose pumps has ended (its drain() or read()
\* raised) is not in the table.
C18_KeyIffOpen ==
  \A i \in DataIds :
    active_streams[i] # 0 =>
      /\ active_streams[i] <= nrec /\ sid[active_streams[i]] = i
      /\ (wsOpen /\ ~dupSeen /\ io[active_streams[i]] # 0) =>
           /\ w2t[io[active_streams[i]]].pc # "done"
           /\ t2w[io[active_streams[i]]].pc # "done"

\* the steps a task takes by itself once the event it awaited has happened:
\* the event loop runs every task that is ready
Ready ==
  \/ Setup
  \/ PutResume
  \/ RecvClosed
  \/ \E k \in Recs :
       \/ ConnStart(k) \/ ConnCancelled(k) \/ ConnSendDone(k)
       \/ W2TStart(k) \/ W2TGet(k) \/ W2TSendDone(k)
       \/ T2WStart(k) \/ T2WSendDataDone(k) \/ T2WSendCloseDone(k)

FairFlowSpec == FlowSpec /\ WF_vars(Ready)

\* C19: handle_ws suspended in put() on the full queue of a record that is
\* no longer in the table (its stream was closed) eventually resumes.
C19_PutResumes ==
  (dpc = "put" /\ active_streams[sid[dref]] # dref) ~> (dpc # "put")

\* a client that obeys flow control (one stream id, one CONNECT): handle_ws
\* never finds a queue full, so it never waits in put()
NextCredit ==
  \/ Next
  \/ \E j \in Recs : W2TSendDone(j)

\* every ready task is run, open_connection returns or raises in the end,
\* and so does drain()
CreditSpec ==
  /\ InitCredit /\ [][NextCredit]_vars
  /\ WF_vars(Ready)
  /\ WF_vars(\E k \in Recs : ConnectOk(k) \/ ConnectFail(k))
  /\ WF_vars(\E j \in Recs : W2TDrainOk(j) \/ W2TDrainFail(j))

\* a stream_ws_to_tcp of the id has ended
PumpEnded(i) == \E j \in Recs : j <= nrec /\ sid[j] = i /\ w2t[j].pc = "done"

\* C20: when the client that obeys flow control has used up its credit for a
\* stream in the table, then, unless the WebSocket closes, the stream is
\* removed or its stream_ws_to_tcp ends, a CONTINUE for the stream gives it
\* credit again.
C20_CreditRenewed ==
  \A i \in DataIds :
    (wsOpen /\ active_streams[i] # 0 /\ lim.credit[i] = 0)
      ~> (\/ lim.credit[i] > 0
          \/ ~wsOpen \/ active_streams[i] = 0 \/ PumpEnded(i))

====
